---- MODULE Spec2Model ----
(***************************************************************************)
(* Model of the QuestionNotes component (offline-first note persistence):  *)
(* a note body and its image registry for one (user, question) pair, kept  *)
(* in a local cache (localStorage) and mirrored to a remote store by       *)
(* debounced writes.                                                       *)
(*                                                                         *)
(* Text is a sequence of lexemes.  The lexemes are the literal opener      *)
(* "[IMAGE:", the closing bracket "]", the bar "|", the blank " " and      *)
(* ordinary characters; an image id is the sequence of lexemes between an  *)
(* opener and the next "]".  Body, id, url and description are all text;   *)
(* the empty string is the empty sequence.                                 *)
(*                                                                         *)
(* The editor (RichTextInput) is a controlled component over value and     *)
(* images.  Its operations and the codec functions are explored by         *)
(* EditorSpec, which starts from a bounded set of bodies and registries in *)
(* an editing session; Spec explores persistence with a few documents.     *)
(*                                                                         *)
(* Handlers are single JavaScript tasks.  save is split into its program   *)
(* points (pc) so that the order of its effects can be stated; while pc is *)
(* not idle no other task runs.  React state updates of one task are       *)
(* batched: the memo hasChanges and the autosave effect are evaluated at   *)
(* the end of the task that changed their dependencies.                    *)
(***************************************************************************)
EXTENDS Integers, Sequences, FiniteSets, TLC

----------------------------------------------------------------------------
(* Bounds *)

MaxFetches == 2

MaxRevert == 1

\* largest number of fragments of a body the editor session starts from
MaxParts == 2

\* largest number of generated ids in a registry an insertion is made into
MaxGenerated == 0

----------------------------------------------------------------------------
(* Lexemes and the documents the environment supplies *)

OPEN == "[IMAGE:"

CLOSE == "]"

WS == " "

BAR == "|"

Tok(c) == <<OPEN, c, CLOSE>>

\* `[IMAGE:${id}]` for an id that is text
Token(imageId) == <<OPEN>> \o imageId \o <<CLOSE>>

\* a legacy two-field token `[IMAGE:url|description]`
Legacy(u, d) == <<OPEN>> \o u \o <<BAR>> \o d \o <<CLOSE>>

ImageData(i, u, d) == [id |-> i, url |-> u, description |-> d]

NoUser == "none"

Users == {NoUser, "u1"}

Questions == {"q1"}

\* what the user types into the editor: body and registry after the change
EditInputs ==
  { [value |-> <<>>, images |-> <<>>],
    [value |-> <<"x">>, images |-> <<>>],
    [value |-> Tok("a") \o <<"x">> \o Tok("b"),
     images |-> <<ImageData(<<"a">>, <<"u1">>, <<"Image">>)>>],
    [value |-> Tok("b") \o Tok("a"),
     images |-> <<ImageData(<<"a">>, <<"u1">>, <<"Image">>)>>] }

\* records the remote store may hold before the session starts
RemoteInputs ==
  { [notes |-> <<>>, notesImageUrls |-> <<>>],
    [notes |-> <<"y">>, notesImageUrls |-> <<>>],
    [notes |-> Tok("a") \o Tok("b"), notesImageUrls |-> <<(<<"u1">>)>>],
    [notes |-> Tok("a") \o Tok("a"), notesImageUrls |-> <<(<<"u1">>), (<<"u2">>)>>],
    [notes |-> Tok("a") \o Tok("b"), notesImageUrls |-> <<(<<>>), (<<"u2">>)>>] }

----------------------------------------------------------------------------
(* Placeholder codec *)

\* index of the first "]" at or after position i, 0 if there is none
RECURSIVE NextClose(_, _)
NextClose(s, i) ==
  IF i > Len(s) THEN 0
  ELSE IF s[i] = CLOSE THEN i
  ELSE NextClose(s, i + 1)

\* end of the match of /\[IMAGE:([^\]]+)\]/ starting at i, 0 if no match
MatchEnd(s, i) ==
  IF i > Len(s) \/ s[i] # OPEN THEN 0
  ELSE LET j == NextClose(s, i + 1)
       IN IF j > i + 1 THEN j ELSE 0

RECURSIVE ExtractFrom(_, _)
ExtractFrom(s, i) ==
  IF i > Len(s) THEN <<>>
  ELSE LET j == MatchEnd(s, i)
       IN IF j = 0 THEN ExtractFrom(s, i + 1)
          ELSE <<SubSeq(s, i + 1, j - 1)>> \o ExtractFrom(s, j + 1)

extractImageIds(content) == ExtractFrom(content, 1)

\* content.replace(/\[IMAGE:[^\]]+\]/g, '')
RECURSIVE RemoveTokensFrom(_, _)
RemoveTokensFrom(s, i) ==
  IF i > Len(s) THEN <<>>
  ELSE LET j == MatchEnd(s, i)
       IN IF j = 0 THEN <<s[i]>> \o RemoveTokensFrom(s, i + 1)
          ELSE RemoveTokensFrom(s, j + 1)

RemoveAllTokens(s) == RemoveTokensFrom(s, 1)

\* s.replace(new RegExp(escaped literal pat, 'g'), '')
RECURSIVE RemoveLiteralFrom(_, _, _)
RemoveLiteralFrom(s, pat, i) ==
  IF i > Len(s) THEN <<>>
  ELSE IF i + Len(pat) - 1 <= Len(s) /\ SubSeq(s, i, i + Len(pat) - 1) = pat
       THEN RemoveLiteralFrom(s, pat, i + Len(pat))
       ELSE <<s[i]>> \o RemoveLiteralFrom(s, pat, i + 1)

RemoveReferences(s, imageId) ==
  RemoveLiteralFrom(s, <<OPEN>> \o imageId \o <<CLOSE>>, 1)

RECURSIVE TrimStart(_)
TrimStart(s) ==
  IF s # <<>> /\ Head(s) = WS THEN TrimStart(Tail(s)) ELSE s

RECURSIVE TrimEnd(_)
TrimEnd(s) ==
  IF s # <<>> /\ s[Len(s)] = WS THEN TrimEnd(SubSeq(s, 1, Len(s) - 1)) ELSE s

Trim(s) == TrimEnd(TrimStart(s))

\* the forEach of cleanOrphanedImages, from index i of the ids found at entry
RECURSIVE StripFrom(_, _, _, _)
StripFrom(cleaned, ids, i, n) ==
  IF i > Len(ids) THEN cleaned
  ELSE StripFrom(IF i > n THEN RemoveReferences(cleaned, ids[i]) ELSE cleaned,
                 ids, i + 1, n)

cleanOrphanedImages(content, availableImageUrls) ==
  IF Len(availableImageUrls) = 0
  THEN RemoveAllTokens(content)
  ELSE Trim(StripFrom(content, extractImageIds(content), 1,
                      Len(availableImageUrls)))

UrlsOf(imgs) == [i \in 1..Len(imgs) |-> imgs[i].url]

\* contentImageIds.map((id, index) => ...).filter(img => img.url)
RECURSIVE PairFrom(_, _, _)
PairFrom(ids, urls, i) ==
  IF i > Len(ids) THEN <<>>
  ELSE LET u == IF i <= Len(urls) THEN urls[i] ELSE <<>>
       IN (IF u # <<>> THEN <<ImageData(ids[i], u, <<>>)>> ELSE <<>>)
          \o PairFrom(ids, urls, i + 1)

ServerImageData(cleanedNotes, serverImageUrls) ==
  PairFrom(extractImageIds(cleanedNotes), serverImageUrls, 1)

----------------------------------------------------------------------------
(* State *)

VARIABLES
  user,               \* useAuth().user?.id, NoUser when signed out
  questionId,         \* prop
  value,              \* useState('')
  images,             \* useState<ImageData[]>([])
  initialLoaded,      \* useState(false)
  saveState,          \* useState<SaveState>('idle')
  lastSavedAt,        \* useState<Date | null>(null): "null" or "date"
  isEditing,          \* useState(false)
  lastSavedValueRef,  \* useRef('')
  lastSavedImagesRef, \* useRef<ImageData[]>([])
  hasChanges,         \* useMemo over [value, images]
  debouncePending,    \* pending timers created by the autosave effect, oldest first
  debounceRefLive,    \* debounceRef.current names a pending timer (the newest)
  syncPending,        \* pending timers created by save for the remote write
  syncRefLive,        \* syncDebounceRef.current names a pending timer
  revertTimers,       \* pending setTimeout(() => setSaveState('idle'), 1200)
  localStorage,       \* the local cache
  remote,             \* the remote note store
  fetches,            \* hydrate fetches in flight
  pc,                 \* program point of the running save task
  uploads,            \* files handed to startUpload whose upload has not settled
  comments,           \* LectureComments: useState<Comment[]>([])
  savedFrom,          \* history: the registry of the cache a new device left behind
  editingImage,       \* RichTextInput: useState<ImageData | null>(null), <<>> for null
  imageEditForm,      \* RichTextInput: useState({ url: '', description: '' })
  edited,             \* history: the user changed the content since the last hydrate
  dirty,              \* history: keys whose cache entry holds a save the remote
                      \* store has not received
  clearedKeys,        \* history: keys clearedKeys by clearNote and not edited since
  lastOp              \* history: the last handler that ran

vars == <<user, questionId, value, images, initialLoaded, saveState, lastSavedAt,
          isEditing, lastSavedValueRef, lastSavedImagesRef, hasChanges,
          debouncePending, debounceRefLive, syncPending, syncRefLive,
          revertTimers, localStorage, remote, fetches, pc, uploads, comments,
          savedFrom, editingImage, imageEditForm, edited, dirty, clearedKeys,
          lastOp>>

KeyUser(u) == IF u = NoUser THEN "guest" ELSE u

\* `notes_${user?.id || 'guest'}_${questionId}`
localStorageKey(u, q) == <<KeyUser(u), q>>

LocalKeys == {localStorageKey(u, q) : u \in Users, q \in Questions}

RemoteKeys == {<<u, q>> : u \in Users \ {NoUser}, q \in Questions}

Absent == [present |-> FALSE, value |-> <<>>, images |-> <<>>]

Entry(v, imgs) == [present |-> TRUE, value |-> v, images |-> imgs]

Idle ==
  [step |-> "idle", caller |-> "none", content |-> <<>>, urls |-> <<>>,
   images |-> <<>>, user |-> NoUser, questionId |-> "q1"]

hasContent == Trim(value) # <<>> \/ Len(images) > 0

HasChanges(v, imgs, rv, ri) == v # rv \/ imgs # ri

ClearTimeoutNoop(pending, live) == pending

\* clearTimeout(ref.current): removes the timer the ref names, if still pending
ClearTimeout(pending, live) ==
  IF live /\ pending # <<>> THEN SubSeq(pending, 1, Len(pending) - 1) ELSE pending

\* the timer at the head fires: the ref names a pending timer only if one is left
LiveAfterFire(pending, live) == live /\ Len(pending) > 1

AutosaveGuardNoLoaded(il, hc, u) == hc /\ u # NoUser

\* the three early returns of the autosave effect
AutosaveGuard(il, hc, u) == il /\ hc /\ u # NoUser

AutosaveEffectNoCleanup(v, imgs, il, hc, u, q) ==
  IF AutosaveGuard(il, hc, u)
  THEN Append(debouncePending,
              [value |-> v, images |-> imgs, user |-> u, questionId |-> q])
  ELSE debouncePending

\* the autosave effect re-runs: cleanup of the previous run, then the new run
AutosaveEffect(v, imgs, il, hc, u, q) ==
  LET cleared == ClearTimeout(debouncePending, debounceRefLive)
  IN IF AutosaveGuard(il, hc, u)
     THEN Append(cleared, [value |-> v, images |-> imgs, user |-> u, questionId |-> q])
     ELSE cleared

Init ==
  /\ user = "u1"
  /\ questionId = "q1"
  /\ value = <<>>
  /\ images = <<>>
  /\ initialLoaded = FALSE
  /\ saveState = "idle"
  /\ lastSavedAt = "null"
  /\ isEditing = FALSE
  /\ lastSavedValueRef = <<>>
  /\ lastSavedImagesRef = <<>>
  /\ hasChanges = FALSE
  /\ debouncePending = <<>>
  /\ debounceRefLive = FALSE
  /\ syncPending = <<>>
  /\ syncRefLive = FALSE
  /\ revertTimers = 0
  /\ localStorage = [k \in LocalKeys |-> Absent]
  /\ remote \in [RemoteKeys -> RemoteInputs]
  /\ fetches = {}
  /\ pc = [Idle EXCEPT !.step = "mount"]
  /\ uploads = <<>>
  /\ comments = <<>>
  /\ savedFrom = <<>>
  /\ editingImage = <<>>
  /\ imageEditForm = [url |-> <<>>, description |-> <<>>]
  /\ edited = FALSE
  /\ dirty = {}
  /\ clearedKeys = {}
  /\ lastOp = "init"

----------------------------------------------------------------------------
(* Hydrate: the load effect *)

Cancel(f) == [f EXCEPT !.cancelled = TRUE]

NewFetch(u, q) ==
  [user |-> u, questionId |-> q, cancelled |-> FALSE, phase |-> "fetch",
   notes |-> <<>>, notesImageUrls |-> <<>>]

FoundLocalNever(entry) == FALSE

\* if (saved) { ... if (data.value || data.images?.length > 0) ...
FoundLocal(entry) ==
  entry.present /\ (entry.value # <<>> \/ Len(entry.images) > 0)

\* cleanup of the previous run, reset, loadFromLocalStorage, syncWithServer
\* up to its first await
LoadEffect(u, q) ==
  LET entry == localStorage[localStorageKey(u, q)]
      found == FoundLocal(entry)
  IN /\ user' = u
     /\ questionId' = q
     /\ value' = IF found THEN entry.value ELSE <<>>
     /\ images' = IF found THEN entry.images ELSE <<>>
     /\ lastSavedValueRef' = IF found THEN entry.value ELSE <<>>
     /\ lastSavedImagesRef' = IF found THEN entry.images ELSE <<>>
     /\ lastSavedAt' = IF found THEN "date" ELSE lastSavedAt
     /\ initialLoaded' = FALSE
     /\ isEditing' = FALSE
     /\ saveState' = IF u # NoUser THEN "loading" ELSE "idle"
     /\ fetches' = {Cancel(f) : f \in fetches}
                     \cup (IF u # NoUser THEN {NewFetch(u, q)} ELSE {})
     /\ hasChanges' = FALSE
     /\ debouncePending' = ClearTimeout(debouncePending, debounceRefLive)
     /\ debounceRefLive' = FALSE
     /\ syncPending' = ClearTimeout(syncPending, syncRefLive)
     /\ syncRefLive' = FALSE
     /\ edited' = FALSE
     /\ UNCHANGED <<revertTimers, localStorage, remote, uploads, comments, savedFrom,
                    editingImage, imageEditForm,
                    dirty,
                    clearedKeys>>

Mount ==
  /\ pc.step = "mount"
  /\ LoadEffect(user, questionId)
  /\ pc' = Idle
  /\ lastOp' = "Mount"

\* the question is opened where the cache is empty (another browser, or the
\* site data was cleared) once the save of this document has reached the
\* remote store: nothing of the page survives but the remote record
NewDevice ==
  LET entry == localStorage[localStorageKey(user, questionId)]
  IN /\ pc.step = "idle"
     /\ user # NoUser
     /\ syncPending = <<>>
     /\ edited
     /\ localStorageKey(user, questionId) \notin dirty
     /\ entry.present
     /\ remote[<<user, questionId>>] =
          [notes |-> entry.value, notesImageUrls |-> UrlsOf(entry.images)]
     /\ savedFrom' = entry.images
     /\ localStorage' = [k \in LocalKeys |-> Absent]
     /\ value' = <<>>
     /\ images' = <<>>
     /\ initialLoaded' = FALSE
     /\ saveState' = "idle"
     /\ lastSavedAt' = "null"
     /\ isEditing' = FALSE
     /\ lastSavedValueRef' = <<>>
     /\ lastSavedImagesRef' = <<>>
     /\ hasChanges' = FALSE
     /\ debouncePending' = <<>>
     /\ debounceRefLive' = FALSE
     /\ syncRefLive' = FALSE
     /\ revertTimers' = 0
     /\ fetches' = {}
     /\ pc' = [Idle EXCEPT !.step = "mount"]
     /\ uploads' = <<>>
     /\ edited' = FALSE
     /\ dirty' = {}
     /\ lastOp' = "NewDevice"
     /\ UNCHANGED <<user, questionId, syncPending, remote, comments, clearedKeys,
                    editingImage, imageEditForm>>

SwitchDocument(u, q) ==
  /\ pc.step = "idle"
  /\ <<u, q>> # <<user, questionId>>
  /\ Cardinality(fetches) < MaxFetches
  /\ LoadEffect(u, q)
  /\ pc' = Idle
  /\ lastOp' = "SwitchDocument"

----------------------------------------------------------------------------
(* Hydrate: resolution of the remote fetch *)

FetchAppliesAlways(f) == TRUE

\* the guards on the closure's cancellation flag (lines 134, 137, 196)
FetchApplies(f) == ~f.cancelled

shouldUseServerDataLocalWins(localData, serverNotes, serverImageUrls) ==
  ~localData.present

shouldUseServerDataAlways(localData, serverNotes, serverImageUrls) == TRUE

\* let shouldUseServerData = true; if (localData) { ... = false }
shouldUseServerData(localData, serverNotes, serverImageUrls) ==
  ~(localData.present
    /\ localData.value = serverNotes
    /\ UrlsOf(localData.images) = serverImageUrls)

ServerHasContent(serverNotes, serverImageUrls) ==
  serverNotes # <<>> \/ Len(serverImageUrls) > 0

\* the finally block of syncWithServer, followed by the render it causes;
\* v, imgs, hc are the content and the memo of that render
FinishHydrate(f, v, imgs, hc) ==
  /\ saveState' = "idle"
  /\ initialLoaded' = TRUE
  /\ debouncePending' = AutosaveEffect(v, imgs, TRUE, hc, f.user, f.questionId)
  /\ debounceRefLive' = AutosaveGuard(TRUE, hc, f.user)

\* the response of GET /api/user-question-state carries the stored record
Responded(f) ==
  [f EXCEPT !.phase = "json",
            !.notes = remote[<<f.user, f.questionId>>].notes,
            !.notesImageUrls = remote[<<f.user, f.questionId>>].notesImageUrls]

\* `await fetch(...)` settles: the response arrives, or the request throws
FetchRespond(f, outcome) ==
  /\ pc.step = "idle"
  /\ f \in fetches
  /\ f.phase = "fetch"
  /\ IF outcome = "ok" /\ FetchApplies(f)
     THEN /\ fetches' = (fetches \ {f}) \cup {Responded(f)}
          /\ lastOp' = "FetchRespond"
          /\ UNCHANGED <<saveState, initialLoaded, debouncePending,
                         debounceRefLive, hasChanges>>
     ELSE /\ fetches' = fetches \ {f}
          /\ IF FetchApplies(f)
             THEN /\ hasChanges' = hasChanges
                  /\ FinishHydrate(f, value, images, hasChanges)
                  /\ lastOp' = "FetchFailed"
             ELSE /\ lastOp' = "FetchDiscarded"
                  /\ UNCHANGED <<saveState, initialLoaded, debouncePending,
                                 debounceRefLive, hasChanges>>
  /\ UNCHANGED <<editingImage, imageEditForm, savedFrom, comments, uploads, user, questionId, value, images, lastSavedAt, isEditing,
                 lastSavedValueRef, lastSavedImagesRef, syncPending, syncRefLive,
                 revertTimers, localStorage, remote, pc, edited, dirty, clearedKeys>>

\* `await res.json()` settles; stored says whether localStorage.setItem succeeds
FetchJson(f, stored) ==
  /\ pc.step = "idle"
  /\ f \in fetches
  /\ f.phase = "json"
  /\ fetches' = fetches \ {f}
  /\ LET key == localStorageKey(f.user, f.questionId)
         serverNotes == f.notes
         serverImageUrls == f.notesImageUrls
         use == /\ shouldUseServerData(localStorage[key], serverNotes,
                                       serverImageUrls)
                /\ ServerHasContent(serverNotes, serverImageUrls)
         cleanedNotes == cleanOrphanedImages(serverNotes, serverImageUrls)
         imageData == ServerImageData(cleanedNotes, serverImageUrls)
     IN IF ~FetchApplies(f)
        THEN /\ stored
             /\ lastOp' = "FetchDiscarded"
             /\ UNCHANGED <<value, images, lastSavedValueRef, lastSavedImagesRef,
                            lastSavedAt, localStorage, hasChanges, saveState,
                            initialLoaded, debouncePending, debounceRefLive,
                            dirty>>
        ELSE IF use
        THEN /\ value' = cleanedNotes
             /\ images' = imageData
             /\ lastSavedValueRef' = cleanedNotes
             /\ lastSavedImagesRef' = imageData
             /\ lastSavedAt' = "date"
             /\ localStorage' =
                  IF stored
                  THEN [localStorage EXCEPT ![key] = Entry(cleanedNotes, imageData)]
                  ELSE localStorage
             /\ dirty' = IF stored THEN dirty \ {key} ELSE dirty
             /\ hasChanges' =
                  HasChanges(cleanedNotes, imageData, cleanedNotes, imageData)
             /\ FinishHydrate(f, cleanedNotes, imageData, hasChanges')
             /\ lastOp' = "FetchApplied"
        ELSE /\ stored
             /\ hasChanges' = hasChanges
             /\ FinishHydrate(f, value, images, hasChanges)
             /\ lastOp' = "FetchIgnored"
             /\ UNCHANGED <<value, images, lastSavedValueRef, lastSavedImagesRef,
                            lastSavedAt, localStorage, dirty>>
  /\ UNCHANGED <<editingImage, imageEditForm, savedFrom, comments, uploads, user, questionId, isEditing, syncPending, syncRefLive,
                 revertTimers, remote, pc, edited, clearedKeys>>

----------------------------------------------------------------------------
(* Editing *)

\* onChange / onImagesChange of the editor, followed by the render
Edit(in) ==
  /\ pc.step = "idle"
  /\ isEditing \/ ~hasContent
  /\ <<in.value, in.images>> # <<value, images>>
  /\ value' = in.value
  /\ images' = in.images
  /\ hasChanges' =
       HasChanges(in.value, in.images, lastSavedValueRef, lastSavedImagesRef)
  /\ debouncePending' =
       AutosaveEffect(in.value, in.images, initialLoaded, hasChanges', user,
                      questionId)
  /\ debounceRefLive' = AutosaveGuard(initialLoaded, hasChanges', user)
  /\ edited' = TRUE
  /\ clearedKeys' = clearedKeys \ {localStorageKey(user, questionId)}
  /\ lastOp' = IF debouncePending # <<>> THEN "EditDebounced" ELSE "Edit"
  /\ UNCHANGED <<editingImage, imageEditForm, savedFrom, comments, uploads, user, questionId, initialLoaded, saveState, lastSavedAt,
                 isEditing, lastSavedValueRef, lastSavedImagesRef, syncPending,
                 syncRefLive, revertTimers, localStorage, remote, fetches, pc,
                 dirty>>

handleEdit ==
  /\ pc.step = "idle"
  /\ hasContent
  /\ ~isEditing
  /\ isEditing' = TRUE
  /\ lastOp' = "handleEdit"
  /\ UNCHANGED <<editingImage, imageEditForm, savedFrom, comments, uploads, user, questionId, value, images, initialLoaded, saveState,
                 lastSavedAt, lastSavedValueRef, lastSavedImagesRef, hasChanges,
                 debouncePending, debounceRefLive, syncPending, syncRefLive,
                 revertTimers, localStorage, remote, fetches, pc, edited, dirty, clearedKeys>>

handleCancelEdit ==
  /\ pc.step = "idle"
  /\ isEditing
  /\ value' = lastSavedValueRef
  /\ images' = lastSavedImagesRef
  /\ isEditing' = FALSE
  /\ hasChanges' =
       HasChanges(lastSavedValueRef, lastSavedImagesRef, lastSavedValueRef,
                  lastSavedImagesRef)
  /\ debouncePending' =
       AutosaveEffect(lastSavedValueRef, lastSavedImagesRef, initialLoaded,
                      hasChanges', user, questionId)
  /\ debounceRefLive' = AutosaveGuard(initialLoaded, hasChanges', user)
  /\ lastOp' = "handleCancelEdit"
  /\ UNCHANGED <<editingImage, imageEditForm, savedFrom, comments, uploads, user, questionId, initialLoaded, saveState, lastSavedAt,
                 lastSavedValueRef, lastSavedImagesRef, syncPending, syncRefLive,
                 revertTimers, localStorage, remote, fetches, pc, edited, dirty, clearedKeys>>

----------------------------------------------------------------------------
(* Save *)

\* save() up to the call of saveToLocalStorage, with the content and the key
\* of the render whose closure runs (c)
SaveStart(c, caller) ==
  IF c.user = NoUser
  THEN /\ isEditing' = IF caller = "button" THEN FALSE ELSE isEditing
       /\ UNCHANGED <<saveState, pc>>
  ELSE /\ saveState' = "saving"
       /\ pc' = [step |-> "save_local", caller |-> caller,
                 content |-> cleanOrphanedImages(c.value, UrlsOf(c.images)),
                 urls |-> UrlsOf(c.images), images |-> c.images,
                 user |-> c.user, questionId |-> c.questionId]
       /\ UNCHANGED isEditing

\* the autosave timer fires: save(true) of the render that scheduled it
AutosaveFire ==
  /\ pc.step = "idle"
  /\ debouncePending # <<>>
  /\ revertTimers < MaxRevert
  /\ SaveStart(Head(debouncePending), "autosave")
  /\ debouncePending' = Tail(debouncePending)
  /\ debounceRefLive' = LiveAfterFire(debouncePending, debounceRefLive)
  /\ lastOp' = "AutosaveFire"
  /\ UNCHANGED <<editingImage, imageEditForm, savedFrom, comments, uploads, user, questionId, value, images, initialLoaded, lastSavedAt,
                 lastSavedValueRef, lastSavedImagesRef, hasChanges, syncPending,
                 syncRefLive, revertTimers, localStorage, remote, fetches,
                 edited, dirty, clearedKeys>>

\* the Sauvegarder button: save(false), then setIsEditing(false)
handleSaveEdit ==
  /\ pc.step = "idle"
  /\ isEditing
  /\ initialLoaded
  /\ hasChanges
  /\ revertTimers < MaxRevert
  /\ SaveStart([value |-> value, images |-> images, user |-> user,
                questionId |-> questionId], "button")
  /\ lastOp' = "handleSaveEdit"
  /\ UNCHANGED <<editingImage, imageEditForm, savedFrom, comments, uploads, user, questionId, value, images, initialLoaded, lastSavedAt,
                 lastSavedValueRef, lastSavedImagesRef, hasChanges,
                 debouncePending, debounceRefLive, syncPending, syncRefLive,
                 revertTimers, localStorage, remote, fetches, edited, dirty, clearedKeys>>

\* localStorage.setItem succeeds (written) or throws
saveToLocalStorage(written) ==
  /\ pc.step = "save_local"
  /\ IF written
     THEN /\ localStorage' =
               [localStorage EXCEPT ![localStorageKey(pc.user, pc.questionId)] =
                  Entry(pc.content, pc.images)]
          /\ lastSavedAt' = "date"
          /\ dirty' = dirty \cup {localStorageKey(pc.user, pc.questionId)}
          /\ pc' = [pc EXCEPT !.step = "save_ok"]
     ELSE /\ pc' = [pc EXCEPT !.step = "save_failed"]
          /\ UNCHANGED <<localStorage, lastSavedAt, dirty>>
  /\ lastOp' = "saveToLocalStorage"
  /\ UNCHANGED <<editingImage, imageEditForm, savedFrom, comments, uploads, user, questionId, value, images, initialLoaded, saveState,
                 isEditing, lastSavedValueRef, lastSavedImagesRef, hasChanges,
                 debouncePending, debounceRefLive, syncPending, syncRefLive,
                 revertTimers, remote, fetches, edited, clearedKeys>>

localSavedAlways == TRUE

\* const localSaved = saveToLocalStorage(...)
localSaved == pc.step = "save_ok"

\* the rest of save(): the branch on localSaved, then the render
SaveFinish ==
  /\ pc.step \in {"save_ok", "save_failed"}
  /\ IF localSaved
     THEN /\ value' = pc.content
          /\ lastSavedValueRef' = pc.content
          /\ lastSavedImagesRef' = pc.images
          /\ saveState' = "saved"
          /\ syncPending' =
               Append(ClearTimeout(syncPending, syncRefLive),
                      [content |-> pc.content, urls |-> pc.urls,
                       user |-> pc.user, questionId |-> pc.questionId])
          /\ syncRefLive' = TRUE
          /\ revertTimers' = revertTimers + 1
          /\ IF pc.content # value
             THEN /\ hasChanges' =
                       HasChanges(pc.content, images, pc.content, pc.images)
                  /\ debouncePending' =
                       AutosaveEffect(pc.content, images, initialLoaded,
                                      hasChanges', user, questionId)
                  /\ debounceRefLive' =
                       AutosaveGuard(initialLoaded, hasChanges', user)
             ELSE UNCHANGED <<hasChanges, debouncePending, debounceRefLive>>
          /\ lastOp' = IF syncPending # <<>> THEN "SaveCoalesced"
                        ELSE "SaveCommitted"
     ELSE /\ saveState' = "error"
          /\ lastOp' = "SaveFailed"
          /\ UNCHANGED <<value, lastSavedValueRef, lastSavedImagesRef,
                         syncPending, syncRefLive, revertTimers,
                         hasChanges, debouncePending, debounceRefLive>>
  /\ isEditing' = IF pc.caller = "button" THEN FALSE ELSE isEditing
  /\ pc' = Idle
  /\ UNCHANGED <<editingImage, imageEditForm, savedFrom, comments, uploads, user, questionId, images, initialLoaded, lastSavedAt,
                 localStorage, remote, fetches, edited, dirty, clearedKeys>>

----------------------------------------------------------------------------
(* Timers and the remote write *)

\* setTimeout(() => setSaveState('idle'), 1200) fires
RevertFire ==
  /\ pc.step = "idle"
  /\ revertTimers > 0
  /\ revertTimers' = revertTimers - 1
  /\ saveState' = "idle"
  /\ lastOp' = "RevertFire"
  /\ UNCHANGED <<editingImage, imageEditForm, savedFrom, comments, uploads, user, questionId, value, images, initialLoaded, lastSavedAt,
                 isEditing, lastSavedValueRef, lastSavedImagesRef, hasChanges,
                 debouncePending, debounceRefLive, syncPending, syncRefLive,
                 localStorage, remote, fetches, pc, edited, dirty, clearedKeys>>

\* syncToServer: the POST replaces the whole record when it succeeds (ok)
syncToServerNothing(u, q, content, imageUrls, ok) == UNCHANGED remote

syncToServer(u, q, content, imageUrls, ok) ==
  IF u = NoUser
  THEN UNCHANGED remote
  ELSE remote' =
         IF ok
         THEN [remote EXCEPT ![<<u, q>>] =
                 [notes |-> content, notesImageUrls |-> imageUrls]]
         ELSE remote

SaveStateAfterSyncFatal(state, ok) == IF ok THEN state ELSE "error"

\* the callback of the remote-sync timer drops what syncToServer returns, and
\* the catch of syncToServer only logs
SaveStateAfterSync(state, ok) == state

PendingAfterSyncRetry(pending, ok) == IF ok THEN Tail(pending) ELSE pending

\* the timer that fired is gone, whatever becomes of its request
PendingAfterSync(pending, ok) == Tail(pending)

\* the remote-sync timer scheduled by save fires
SyncFire(ok) ==
  /\ pc.step = "idle"
  /\ syncPending # <<>>
  /\ LET t == Head(syncPending)
     IN /\ syncToServer(t.user, t.questionId, t.content, t.urls, ok)
        /\ dirty' = IF ok THEN dirty \ {localStorageKey(t.user, t.questionId)}
                    ELSE dirty
  /\ syncPending' = PendingAfterSync(syncPending, ok)
  /\ syncRefLive' = LiveAfterFire(syncPending, syncRefLive)
  /\ saveState' = SaveStateAfterSync(saveState, ok)
  /\ lastOp' = IF ok THEN "SyncFire" ELSE "SyncFailed"
  /\ UNCHANGED <<editingImage, imageEditForm, savedFrom, comments, uploads, user, questionId, value, images, initialLoaded,
                 lastSavedAt, isEditing, lastSavedValueRef, lastSavedImagesRef,
                 hasChanges, debouncePending, debounceRefLive, revertTimers,
                 localStorage, fetches, pc, edited, clearedKeys>>

----------------------------------------------------------------------------
(* Clear *)

clearNote(ok) ==
  /\ pc.step = "idle"
  /\ isEditing
  /\ initialLoaded
  /\ value # <<>> \/ Len(images) > 0
  /\ value' = <<>>
  /\ images' = <<>>
  /\ isEditing' = FALSE
  /\ localStorage' =
       [localStorage EXCEPT ![localStorageKey(user, questionId)] = Absent]
  /\ syncToServer(user, questionId, <<>>, <<>>, ok)
  /\ lastSavedValueRef' = <<>>
  /\ lastSavedImagesRef' = <<>>
  /\ lastSavedAt' = "null"
  /\ hasChanges' = HasChanges(<<>>, <<>>, <<>>, <<>>)
  /\ debouncePending' =
       AutosaveEffect(<<>>, <<>>, initialLoaded, hasChanges', user, questionId)
  /\ debounceRefLive' = AutosaveGuard(initialLoaded, hasChanges', user)
  /\ dirty' = dirty \ {localStorageKey(user, questionId)}
  /\ clearedKeys' = clearedKeys \cup {localStorageKey(user, questionId)}
  /\ lastOp' = "clearNote"
  /\ UNCHANGED <<editingImage, imageEditForm, savedFrom, comments, uploads, user, questionId, initialLoaded, saveState, syncPending,
                 syncRefLive, revertTimers, fetches, pc, edited>>

----------------------------------------------------------------------------
(* Editor: RichTextInput over the value and images of QuestionNotes *)

\* index of the first "|" at or after position i, 0 if there is none
RECURSIVE NextBar(_, _)
NextBar(s, i) ==
  IF i > Len(s) THEN 0
  ELSE IF s[i] = BAR THEN i
  ELSE NextBar(s, i + 1)

\* the match of /\[IMAGE:([^|]+)\|([^\]]+)\]/ starting at i: the positions of
\* its bar and of its closing bracket, or end = 0 if there is no match
LegacyMatch(s, i) ==
  IF i > Len(s) \/ s[i] # OPEN THEN [bar |-> 0, end |-> 0]
  ELSE LET b == NextBar(s, i + 1)
           c == IF b = 0 THEN 0 ELSE NextClose(s, b + 1)
       IN IF b > i + 1 /\ c > b + 1 THEN [bar |-> b, end |-> c]
          ELSE [bar |-> 0, end |-> 0]

\* legacyRegex.test(value)
LegacyTest(s) == \E i \in 1..Len(s) : LegacyMatch(s, i).end # 0

\* what generateImageId can return: `img_${Date.now()}_${random}`
GeneratedIds ==
  <<"img1", "img2", "img3", "img4", "img5", "img6", "img7", "img8">>

IdsOf(imgs) == {imgs[i].id : i \in DOMAIN imgs}

GeneratedBy == {<<GeneratedIds[k]>> : k \in DOMAIN GeneratedIds}

LexemesOf(s) == {s[i] : i \in DOMAIN s}

generateImageIdConstant(body, imgs) == <<"a">>

\* generateImageId(): an id that occurs neither in the registry nor in the
\* body (the timestamp and the random suffix make it new)
generateImageId(body, imgs) ==
  LET free == {k \in DOMAIN GeneratedIds :
                 /\ <<GeneratedIds[k]>> \notin IdsOf(imgs)
                 /\ GeneratedIds[k] \notin LexemesOf(body)}
      k == CHOOSE m \in free : \A n \in free : m <= n
  IN <<GeneratedIds[k]>>

FindByUrlNever(imgs, url) == 0

\* newImages.find(img => img.url === url): index of the first hit, 0 if none
FindByUrl(imgs, url) ==
  IF \E i \in DOMAIN imgs : imgs[i].url = url
  THEN CHOOSE i \in DOMAIN imgs :
         imgs[i].url = url /\ \A j \in 1..(i - 1) : imgs[j].url # url
  ELSE 0

\* working.replace(legacyRegex, callback) from position i, with the registry
\* the callback has built so far
RECURSIVE MigrateFrom(_, _, _)
MigrateFrom(s, i, newImages) ==
  IF i > Len(s) THEN [working |-> <<>>, newImages |-> newImages]
  ELSE LET m == LegacyMatch(s, i)
       IN IF m.end = 0
          THEN LET rest == MigrateFrom(s, i + 1, newImages)
               IN [rest EXCEPT !.working = <<s[i]>> \o rest.working]
          ELSE LET url == Trim(SubSeq(s, i + 1, m.bar - 1))
                   description == Trim(SubSeq(s, m.bar + 1, m.end - 1))
                   found == FindByUrl(newImages, url)
                   existing ==
                     IF found # 0 THEN newImages[found]
                     ELSE ImageData(generateImageId(s, newImages), url,
                                    description)
                   pushed == IF found # 0 THEN newImages
                             ELSE Append(newImages, existing)
                   rest == MigrateFrom(s, m.end + 1, pushed)
               IN [rest EXCEPT !.working = Token(existing.id) \o rest.working]

\* the body of the legacy migration effect for the props (v, imgs)
migrateLegacy(v, imgs) ==
  IF v = <<>> \/ ~LegacyTest(v) THEN [working |-> v, newImages |-> imgs]
  ELSE LET r == MigrateFrom(v, 1, imgs)
       IN IF r.working # v THEN r ELSE [working |-> v, newImages |-> imgs]

\* the editor is rendered: input mode, or card mode while editing
EditorShown == isEditing \/ ~hasContent

\* the migration effect of the last render has a change to make
MigrationPending ==
  EditorShown /\ migrateLegacy(value, images).working # value

\* onImagesChange(newImages) and onChange(newValue) of one editor task,
\* followed by the render of QuestionNotes
EditorChange(newValue, newImages) ==
  /\ value' = newValue
  /\ images' = newImages
  /\ hasChanges' =
       HasChanges(newValue, newImages, lastSavedValueRef, lastSavedImagesRef)
  /\ debouncePending' =
       AutosaveEffect(newValue, newImages, initialLoaded, hasChanges', user,
                      questionId)
  /\ debounceRefLive' = AutosaveGuard(initialLoaded, hasChanges', user)
  /\ edited' = TRUE
  /\ clearedKeys' = clearedKeys \ {localStorageKey(user, questionId)}
  /\ UNCHANGED <<savedFrom, comments, user, questionId, initialLoaded, saveState, lastSavedAt,
                 isEditing, lastSavedValueRef, lastSavedImagesRef, syncPending,
                 syncRefLive, revertTimers, localStorage, remote, fetches, pc,
                 dirty>>

\* the legacy migration effect runs after a render whose value has legacy
\* tokens it can convert
MigrationEffect ==
  /\ pc.step = "idle"
  /\ MigrationPending
  /\ LET r == migrateLegacy(value, images)
     IN EditorChange(r.working, r.newImages)
  /\ lastOp' = "MigrationEffect"
  /\ UNCHANGED <<uploads, editingImage, imageEditForm>>

\* beforeCursor + imageTag + afterCursor
Splice(body, cursorPos, imageTag) ==
  SubSeq(body, 1, cursorPos) \o imageTag \o SubSeq(body, cursorPos + 1, Len(body))

\* insertImageAtCursor(res[0].url, res[0].name) as onClientUploadComplete
\* calls it, with the cursor after cursorPos lexemes
insertImageAtCursor(cursorPos, imageUrl, description) ==
  /\ pc.step = "idle"
  /\ EditorShown
  /\ ~MigrationPending
  /\ Cardinality(IdsOf(images) \cap GeneratedBy) <= MaxGenerated
  /\ cursorPos \in 0..Len(value)
  /\ LET imageId == generateImageId(value, images)
         newImage ==
           ImageData(imageId, imageUrl,
                     IF description # <<>> THEN description ELSE <<"Image">>)
     IN EditorChange(Splice(value, cursorPos, Token(imageId)),
                     Append(images, newImage))
  /\ lastOp' = "insertImageAtCursor"
  /\ UNCHANGED <<editingImage, imageEditForm>>

\* maxImageSize = 4 * 1024 * 1024
maxImageSize == 4 * 1024 * 1024

\* file.type.startsWith('image/'), for a type kept as <<"image/", subtype>>
IsImageType(type) == type # <<>> /\ Head(type) = "image/"

isUploading == uploads # <<>>

PassesValidationAlways(file) == TRUE

\* neither early return of handleImageUpload is taken
PassesValidation(file) == IsImageType(file.type) /\ file.size <= maxImageSize

\* the file input changes: handleFileSelect -> handleImageUpload(file), up to
\* `await startUpload([file])`; the button that opens the file dialog is
\* disabled while an upload is running
handleImageUpload(file) ==
  /\ pc.step = "idle"
  /\ EditorShown
  /\ ~MigrationPending
  /\ ~isUploading
  /\ Cardinality(IdsOf(images) \cap GeneratedBy) <= MaxGenerated
  /\ uploads' = IF PassesValidation(file) THEN Append(uploads, file) ELSE uploads
  /\ lastOp' = "handleImageUpload"
  /\ UNCHANGED <<editingImage, imageEditForm, savedFrom, comments, user, questionId, value, images, initialLoaded, saveState,
                 lastSavedAt, isEditing, lastSavedValueRef, lastSavedImagesRef,
                 hasChanges, debouncePending, debounceRefLive, syncPending,
                 syncRefLive, revertTimers, localStorage, remote, fetches, pc,
                 edited, dirty, clearedKeys>>

\* the upload succeeds: onClientUploadComplete(res); res is the list of
\* uploaded files, each a url and a name
onClientUploadComplete(res, cursorPos) ==
  /\ isUploading
  /\ uploads' = Tail(uploads)
  /\ IF res # <<>>
     THEN insertImageAtCursor(cursorPos, res[1].url, res[1].name)
     ELSE /\ pc.step = "idle"
          /\ lastOp' = "onClientUploadComplete"
          /\ UNCHANGED <<editingImage, imageEditForm, savedFrom, comments, user, questionId, value, images, initialLoaded,
                         saveState, lastSavedAt, isEditing, lastSavedValueRef,
                         lastSavedImagesRef, hasChanges, debouncePending,
                         debounceRefLive, syncPending, syncRefLive,
                         revertTimers, localStorage, remote, fetches, pc,
                         edited, dirty, clearedKeys>>

\* the upload fails: onUploadError(error), or startUpload throws into the
\* catch of handleImageUpload; both only show a toast
onUploadError ==
  /\ pc.step = "idle"
  /\ isUploading
  /\ uploads' = Tail(uploads)
  /\ lastOp' = "onUploadError"
  /\ UNCHANGED <<editingImage, imageEditForm, savedFrom, comments, user, questionId, value, images, initialLoaded, saveState,
                 lastSavedAt, isEditing, lastSavedValueRef, lastSavedImagesRef,
                 hasChanges, debouncePending, debounceRefLive, syncPending,
                 syncRefLive, revertTimers, localStorage, remote, fetches, pc,
                 edited, dirty, clearedKeys>>

\* the alternatives of a pattern source: its pieces between the bars, which
\* the RegExp constructor reads as alternation
RECURSIVE SplitAtBars(_)
SplitAtBars(pat) ==
  LET b == NextBar(pat, 1)
  IN IF b = 0 THEN <<pat>>
     ELSE <<SubSeq(pat, 1, b - 1)>> \o SplitAtBars(SubSeq(pat, b + 1, Len(pat)))

MatchesAt(s, i, alt) ==
  i + Len(alt) - 1 <= Len(s) /\ SubSeq(s, i, i + Len(alt) - 1) = alt

\* value.replace(new RegExp(source, 'g'), '') from position i: the first
\* alternative that matches at a position is removed
RECURSIVE RemovePatternFrom(_, _, _)
RemovePatternFrom(s, alts, i) ==
  IF i > Len(s) THEN <<>>
  ELSE LET hits == {k \in DOMAIN alts : MatchesAt(s, i, alts[k])}
           first == CHOOSE k \in hits : \A m \in hits : k <= m
       IN IF hits = {} \/ alts[first] = <<>>
          THEN <<s[i]>> \o RemovePatternFrom(s, alts, i + 1)
          ELSE RemovePatternFrom(s, alts, i + Len(alts[first]))

\* new RegExp(`\\[IMAGE:${imageId}\\]`, 'g'): the id is not escaped.  Of the
\* lexemes an id of a session's registry is made of, the bar is the one the
\* pattern syntax gives a meaning to.
imagePattern(imageId) == SplitAtBars(Token(imageId))

\* images.filter(img => img.id !== imageId)
RECURSIVE WithoutId(_, _)
WithoutId(imgs, imageId) ==
  IF imgs = <<>> THEN <<>>
  ELSE (IF Head(imgs).id # imageId THEN <<Head(imgs)>> ELSE <<>>)
       \o WithoutId(Tail(imgs), imageId)

\* the remove button of the preview, shown on a token whose id has a record
removeImage(imageId) ==
  /\ pc.step = "idle"
  /\ EditorShown
  /\ ~MigrationPending
  /\ imageId \in IdsOf(images)
  /\ \E i \in DOMAIN extractImageIds(value) : extractImageIds(value)[i] = imageId
  /\ EditorChange(RemovePatternFrom(value, imagePattern(imageId), 1),
                  WithoutId(images, imageId))
  /\ lastOp' = "removeImage"
  /\ UNCHANGED <<uploads, editingImage, imageEditForm>>

----------------------------------------------------------------------------
(* Editor: the image dialog *)

\* the image of the id is shown in the preview
ShownInPreview(imageId) ==
  \E i \in DOMAIN extractImageIds(value) : extractImageIds(value)[i] = imageId

\* editImage(imageId) of the render whose registry is imgs
editImageOf(imgs, imageId) ==
  LET hits == {i \in DOMAIN imgs : imgs[i].id = imageId}
  IN IF hits # {}
     THEN LET image == imgs[CHOOSE i \in hits : \A j \in hits : i <= j]
          IN /\ editingImage' = <<image>>
             /\ imageEditForm' =
                  [url |-> image.url, description |-> image.description]
     ELSE UNCHANGED <<editingImage, imageEditForm>>

\* a click on an image of the preview or on its edit button
editImage(imageId) ==
  /\ pc.step = "idle"
  /\ EditorShown
  /\ ~MigrationPending
  /\ imageId \in IdsOf(images)
  /\ ShownInPreview(imageId)
  /\ editImageOf(images, imageId)
  /\ lastOp' = "editImage"
  /\ UNCHANGED <<savedFrom, comments, uploads, user, questionId, value, images,
                 initialLoaded, saveState, lastSavedAt, isEditing,
                 lastSavedValueRef, lastSavedImagesRef, hasChanges,
                 debouncePending, debounceRefLive, syncPending, syncRefLive,
                 revertTimers, localStorage, remote, fetches, pc, edited, dirty,
                 clearedKeys>>

\* "Associer une image" under a token whose id has no record: the onClick
\* calls updateImages and then editImage of the same render
attachOrphanImage(orphanId) ==
  /\ pc.step = "idle"
  /\ EditorShown
  /\ ~MigrationPending
  /\ orphanId \notin IdsOf(images)
  /\ ShownInPreview(orphanId)
  /\ EditorChange(value, Append(images, ImageData(orphanId, <<>>, <<>>)))
  /\ editImageOf(images, orphanId)
  /\ lastOp' = "attachOrphanImage"
  /\ UNCHANGED uploads

\* typing in the fields of the dialog
setImageEditForm(url, description) ==
  /\ pc.step = "idle"
  /\ editingImage # <<>>
  /\ imageEditForm' = [url |-> url, description |-> description]
  /\ lastOp' = "setImageEditForm"
  /\ UNCHANGED <<editingImage, savedFrom, comments, uploads, user, questionId,
                 value, images, initialLoaded, saveState, lastSavedAt, isEditing,
                 lastSavedValueRef, lastSavedImagesRef, hasChanges,
                 debouncePending, debounceRefLive, syncPending, syncRefLive,
                 revertTimers, localStorage, remote, fetches, pc, edited, dirty,
                 clearedKeys>>

\* images.map(img => img.id === editingImage.id ? {...img, url, description} : img)
WithEdit(imgs, imageId, form) ==
  [i \in DOMAIN imgs |->
     IF imgs[i].id = imageId
     THEN [imgs[i] EXCEPT !.url = form.url, !.description = form.description]
     ELSE imgs[i]]

\* the save button of the dialog, disabled while the url is blank
saveImageEdit ==
  /\ pc.step = "idle"
  /\ editingImage # <<>>
  /\ Trim(imageEditForm.url) # <<>>
  /\ EditorChange(value, WithEdit(images, editingImage[1].id, imageEditForm))
  /\ editingImage' = <<>>
  /\ imageEditForm' = [url |-> <<>>, description |-> <<>>]
  /\ lastOp' = "saveImageEdit"
  /\ UNCHANGED uploads

\* the dialog is closed or cancelled: setEditingImage(null)
closeImageDialog ==
  /\ pc.step = "idle"
  /\ editingImage # <<>>
  /\ editingImage' = <<>>
  /\ lastOp' = "closeImageDialog"
  /\ UNCHANGED <<imageEditForm, savedFrom, comments, uploads, user, questionId,
                 value, images, initialLoaded, saveState, lastSavedAt, isEditing,
                 lastSavedValueRef, lastSavedImagesRef, hasChanges,
                 debouncePending, debounceRefLive, syncPending, syncRefLive,
                 revertTimers, localStorage, remote, fetches, pc, edited, dirty,
                 clearedKeys>>

----------------------------------------------------------------------------
(* LectureComments: the comment tree *)

\* largest number of comments of a lecture
MaxComments == 5

\* parentCommentId of a top-level comment (null)
NoParent == 0

Comment(i, p) == [id |-> i, parentCommentId |-> p, replies |-> <<>>]

\* the comments of a list and of all their replies
RECURSIVE NodesOf(_)
NodesOf(cs) ==
  IF cs = <<>> THEN {}
  ELSE {Head(cs)} \cup NodesOf(Head(cs).replies) \cup NodesOf(Tail(cs))

\* the id the comment store gives to the next comment
NewCommentId ==
  LET ids == {n.id : n \in NodesOf(comments)}
  IN IF ids = {} THEN 1 ELSE 1 + (CHOOSE m \in ids : \A k \in ids : k <= m)

InStackShallow(stack, targetId) ==
  \E i \in DOMAIN stack : stack[i].id = targetId

\* the while loop of findRootId over the stack: is the target found?
RECURSIVE InStack(_, _)
InStack(stack, targetId) ==
  IF stack = <<>> THEN FALSE
  ELSE IF Head(stack).id = targetId THEN TRUE
  ELSE InStack(Tail(stack) \o Head(stack).replies, targetId)

findRootId(target) ==
  IF target.parentCommentId = NoParent THEN target.id
  ELSE LET hits == {i \in DOMAIN comments :
                      \/ comments[i].id = target.id
                      \/ InStack(comments[i].replies, target.id)}
       IN IF hits = {} THEN target.parentCommentId
          ELSE comments[CHOOSE i \in hits : \A j \in hits : i <= j].id

\* const insert = (node) => ... of submitReply
RECURSIVE insert(_, _, _)
insert(node, parent, newReply) ==
  IF node.id = parent.id
  THEN [node EXCEPT !.replies = <<newReply>> \o node.replies]
  ELSE [node EXCEPT !.replies =
          [i \in DOMAIN node.replies |-> insert(node.replies[i], parent, newReply)]]

\* CommentItem sorts the replies of every comment it renders by createdAt, in
\* place; comments are created in the order of their ids
RECURSIVE Rendered(_)
Rendered(comment) ==
  LET sorted == SortSeq(comment.replies, LAMBDA a, b : a.id < b.id)
  IN [comment EXCEPT !.replies =
        [i \in DOMAIN sorted |-> Rendered(sorted[i])]]

\* handleSubmitComment: the POST succeeds (ok) and optimisticAdd prepends the
\* new comment, or it fails
handleSubmitComment(ok) ==
  /\ user # NoUser
  /\ Cardinality(NodesOf(comments)) < MaxComments
  /\ NewCommentId <= MaxComments
  /\ comments' = IF ok THEN <<Comment(NewCommentId, NoParent)>> \o comments
                 ELSE comments
  /\ lastOp' = IF ok THEN "handleSubmitComment" ELSE "handleSubmitCommentFailed"
  /\ UNCHANGED <<editingImage, imageEditForm, savedFrom, uploads, user, questionId, value, images, initialLoaded,
                 saveState, lastSavedAt, isEditing, lastSavedValueRef,
                 lastSavedImagesRef, hasChanges, debouncePending,
                 debounceRefLive, syncPending, syncRefLive, revertTimers,
                 localStorage, remote, fetches, pc, edited, dirty, clearedKeys>>

\* submitReply(content, isAnon, parent) for a comment shown in the tree
submitReply(parent, ok) ==
  /\ user # NoUser
  /\ parent \in NodesOf(comments)
  /\ Cardinality(NodesOf(comments)) < MaxComments
  /\ NewCommentId <= MaxComments
  /\ comments' =
       IF ok
       THEN LET newReply == Comment(NewCommentId, parent.id)
                rootId == findRootId(parent)
            IN [i \in DOMAIN comments |->
                  Rendered(IF comments[i].id = rootId
                           THEN insert(comments[i], parent, newReply)
                           ELSE comments[i])]
       ELSE comments
  /\ lastOp' = IF ok THEN "submitReply" ELSE "submitReplyFailed"
  /\ UNCHANGED <<editingImage, imageEditForm, savedFrom, uploads, user, questionId, value, images, initialLoaded,
                 saveState, lastSavedAt, isEditing, lastSavedValueRef,
                 lastSavedImagesRef, hasChanges, debouncePending,
                 debounceRefLive, syncPending, syncRefLive, revertTimers,
                 localStorage, remote, fetches, pc, edited, dirty, clearedKeys>>

\* prev.filter(c => c.id !== commentId)
\*     .map(c => ({ ...c, replies: c.replies?.filter(r => r.id !== commentId) }))
WithoutComment(prev, commentId) ==
  LET kept == SelectSeq(prev, LAMBDA c : c.id # commentId)
  IN [i \in DOMAIN kept |->
        [kept[i] EXCEPT !.replies =
           SelectSeq(kept[i].replies, LAMBDA r : r.id # commentId)]]

\* the confirmation of the delete dialog for a comment shown in the tree: the
\* DELETE succeeds (ok), or it is rejected or throws
handleDeleteComment(commentId, ok) ==
  /\ user # NoUser
  /\ \E n \in NodesOf(comments) : n.id = commentId
  /\ comments' = IF ok THEN WithoutComment(comments, commentId) ELSE comments
  /\ lastOp' = IF ok THEN "handleDeleteComment" ELSE "handleDeleteCommentFailed"
  /\ UNCHANGED <<editingImage, imageEditForm, savedFrom, uploads, user,
                 questionId, value, images, initialLoaded, saveState,
                 lastSavedAt, isEditing, lastSavedValueRef, lastSavedImagesRef,
                 hasChanges, debouncePending, debounceRefLive, syncPending,
                 syncRefLive, revertTimers, localStorage, remote, fetches, pc,
                 edited, dirty, clearedKeys>>

----------------------------------------------------------------------------
(* Specification *)

Next ==
  \/ Mount
  \/ \E u \in Users, q \in Questions : SwitchDocument(u, q)
  \/ \E f \in fetches, outcome \in {"ok", "notok", "throw"} : FetchRespond(f, outcome)
  \/ \E f \in fetches, stored \in BOOLEAN : FetchJson(f, stored)
  \/ \E in \in EditInputs : Edit(in)
  \/ handleEdit
  \/ handleCancelEdit
  \/ AutosaveFire
  \/ handleSaveEdit
  \/ \E written \in BOOLEAN : saveToLocalStorage(written)
  \/ SaveFinish
  \/ RevertFire
  \/ \E ok \in BOOLEAN : SyncFire(ok)
  \/ \E ok \in BOOLEAN : clearNote(ok)

Spec == Init /\ [][Next]_vars

\* a pending remote-sync timer fires once its delay has passed
SyncSpec == Spec /\ WF_vars(\E ok \in BOOLEAN : SyncFire(ok))

\* `await res.json()` of some request can settle
FetchJsonEnabled == pc.step = "idle" /\ \E f \in fetches : f.phase = "json"

\* the load effect runs after the first render, and the requests of
\* syncWithServer settle (weak fairness of Mount, FetchRespond and FetchJson,
\* the last one written out with FetchJsonEnabled for its ENABLED)
HydrateSpec ==
  /\ Spec
  /\ WF_vars(Mount)
  /\ WF_vars(\E f \in fetches, outcome \in {"ok", "notok", "throw"} :
               FetchRespond(f, outcome))
  /\ \/ []<>~FetchJsonEnabled
     \/ []<><<\E f \in fetches, stored \in BOOLEAN : FetchJson(f, stored)>>_vars

TypeOK ==
  /\ user \in Users
  /\ questionId \in Questions
  /\ initialLoaded \in BOOLEAN
  /\ saveState \in {"idle", "saving", "saved", "error", "loading"}
  /\ lastSavedAt \in {"null", "date"}
  /\ revertTimers \in 0..MaxRevert

\* the pieces the bodies of an editor session are made of
Fragments ==
  { <<OPEN>>, <<CLOSE>>, <<BAR>>, <<"x">>, <<BAR, "x", CLOSE>>, Tok("a"),
    Legacy(<<"u1">>, <<"d">>), Legacy(<<WS, "u1">>, <<"d", WS>>),
    Legacy(<<"u2">>, <<"e">>) }

RECURSIVE Flatten(_)
Flatten(parts) ==
  IF parts = <<>> THEN <<>> ELSE Head(parts) \o Flatten(Tail(parts))

Bodies ==
  UNION { {Flatten(parts) : parts \in [1..n -> Fragments]} : n \in 0..MaxParts }

Registries ==
  { <<>>,
    <<ImageData(<<"a">>, <<"u1">>, <<"Image">>)>>,
    <<ImageData(<<"b">>, <<"u2">>, <<>>), ImageData(<<"a">>, <<"u1">>, <<>>)>>,
    <<ImageData(<<"u1", BAR, "d">>, <<"u1">>, <<>>)>> }

\* an editing session of a signed-out user: no hydrate, no autosave; the
\* editor is mounted over a body and a registry
EditorInit ==
  /\ user = NoUser
  /\ questionId = "q1"
  /\ value \in Bodies
  /\ images \in Registries
  /\ initialLoaded = FALSE
  /\ saveState = "idle"
  /\ lastSavedAt = "null"
  /\ isEditing = TRUE
  /\ lastSavedValueRef = <<>>
  /\ lastSavedImagesRef = <<>>
  /\ hasChanges = HasChanges(value, images, <<>>, <<>>)
  /\ debouncePending = <<>>
  /\ debounceRefLive = FALSE
  /\ syncPending = <<>>
  /\ syncRefLive = FALSE
  /\ revertTimers = 0
  /\ localStorage = [k \in LocalKeys |-> Absent]
  /\ remote = [k \in RemoteKeys |-> [notes |-> <<>>, notesImageUrls |-> <<>>]]
  /\ fetches = {}
  /\ pc = Idle
  /\ uploads = <<>>
  /\ comments = <<>>
  /\ savedFrom = <<>>
  /\ editingImage = <<>>
  /\ imageEditForm = [url |-> <<>>, description |-> <<>>]
  /\ edited = TRUE
  /\ dirty = {}
  /\ clearedKeys = {}
  /\ lastOp = "init"

UploadedUrls == {<<"u3">>}

UploadedNames == {<<>>, <<"pic">>}

\* what the upload service can hand to onClientUploadComplete
UploadResults ==
  {<<>>} \cup {<<[url |-> u, name |-> n]>> : u \in UploadedUrls, n \in UploadedNames}

\* the files the user can select
Files ==
  { [type |-> <<"image/", "png">>, size |-> maxImageSize],
    [type |-> <<"image/", "png">>, size |-> maxImageSize + 1],
    [type |-> <<"application/", "pdf">>, size |-> 1] }

EditorNext ==
  \/ MigrationEffect
  \/ \E file \in Files : handleImageUpload(file)
  \/ \E res \in UploadResults, cursorPos \in 0..Len(value) :
       onClientUploadComplete(res, cursorPos)
  \/ onUploadError
  \/ \E imageId \in IdsOf(images) : removeImage(imageId)

EditorSpec == EditorInit /\ [][EditorNext]_vars

\* what the user can type into the fields of the image dialog
FormUrls == {<<>>, <<WS>>, <<"u3">>}

FormDescriptions == {<<>>, <<"d">>}

\* the preview of the editor and its image dialog
ImageDialogNext ==
  \/ \E imageId \in IdsOf(images) : editImage(imageId)
  \/ \E i \in DOMAIN extractImageIds(value) :
       attachOrphanImage(extractImageIds(value)[i])
  \/ \E url \in FormUrls, description \in FormDescriptions :
       setImageEditForm(url, description)
  \/ saveImageEdit
  \/ closeImageDialog

ImageDialogSpec == EditorInit /\ [][ImageDialogNext]_vars

RoundTripFragments == {<<"x">>, <<WS>>, Tok("a"), Tok("b")}

RoundTripBodies ==
  UNION { {Flatten(parts) : parts \in [1..n -> RoundTripFragments]} :
            n \in 0..MaxParts }

\* a signed-in user's hydrated editor over a body and a registry not yet saved
RoundTripInit ==
  /\ user = "u1"
  /\ questionId = "q1"
  /\ value \in RoundTripBodies
  /\ images \in Registries
  /\ initialLoaded = TRUE
  /\ saveState = "idle"
  /\ lastSavedAt = "null"
  /\ isEditing = TRUE
  /\ lastSavedValueRef = <<>>
  /\ lastSavedImagesRef = <<>>
  /\ hasChanges = HasChanges(value, images, <<>>, <<>>)
  /\ debouncePending = <<>>
  /\ debounceRefLive = FALSE
  /\ syncPending = <<>>
  /\ syncRefLive = FALSE
  /\ revertTimers = 0
  /\ localStorage = [k \in LocalKeys |-> Absent]
  /\ remote = [k \in RemoteKeys |-> [notes |-> <<>>, notesImageUrls |-> <<>>]]
  /\ fetches = {}
  /\ pc = Idle
  /\ uploads = <<>>
  /\ comments = <<>>
  /\ savedFrom = <<>>
  /\ editingImage = <<>>
  /\ imageEditForm = [url |-> <<>>, description |-> <<>>]
  /\ edited = TRUE
  /\ dirty = {}
  /\ clearedKeys = {}
  /\ lastOp = "init"

\* save with the button, the remote write, then the hydrate of a new device
RoundTripNext ==
  \/ handleSaveEdit
  \/ \E written \in BOOLEAN : saveToLocalStorage(written)
  \/ SaveFinish
  \/ RevertFire
  \/ \E ok \in BOOLEAN : SyncFire(ok)
  \/ NewDevice
  \/ Mount
  \/ \E f \in fetches, outcome \in {"ok", "error"} : FetchRespond(f, outcome)
  \/ \E f \in fetches, stored \in BOOLEAN : FetchJson(f, stored)

RoundTripSpec == RoundTripInit /\ [][RoundTripNext]_vars

\* the comments of a lecture, for a signed-in user, from the empty list
CommentsInit ==
  /\ user = "u1"
  /\ questionId = "q1"
  /\ value = <<>>
  /\ images = <<>>
  /\ initialLoaded = FALSE
  /\ saveState = "idle"
  /\ lastSavedAt = "null"
  /\ isEditing = FALSE
  /\ lastSavedValueRef = <<>>
  /\ lastSavedImagesRef = <<>>
  /\ hasChanges = FALSE
  /\ debouncePending = <<>>
  /\ debounceRefLive = FALSE
  /\ syncPending = <<>>
  /\ syncRefLive = FALSE
  /\ revertTimers = 0
  /\ localStorage = [k \in LocalKeys |-> Absent]
  /\ remote = [k \in RemoteKeys |-> [notes |-> <<>>, notesImageUrls |-> <<>>]]
  /\ fetches = {}
  /\ pc = Idle
  /\ uploads = <<>>
  /\ comments = <<>>
  /\ savedFrom = <<>>
  /\ editingImage = <<>>
  /\ imageEditForm = [url |-> <<>>, description |-> <<>>]
  /\ edited = FALSE
  /\ dirty = {}
  /\ clearedKeys = {}
  /\ lastOp = "init"

CommentsNext ==
  \/ \E ok \in BOOLEAN : handleSubmitComment(ok)
  \/ \E parent \in NodesOf(comments), ok \in BOOLEAN : submitReply(parent, ok)
  \/ \E n \in NodesOf(comments), ok \in BOOLEAN : handleDeleteComment(n.id, ok)

CommentsSpec == CommentsInit /\ [][CommentsNext]_vars

----------------------------------------------------------------------------
(* Hydration claims *)

CurrentKey == localStorageKey(user, questionId)

\* the step resolves fetch f: f leaves the requests in flight, or its body is
\* awaited next
Resolves(f) ==
  \/ fetches' = fetches \ {f}
  \/ /\ f.phase = "fetch"
     /\ fetches' = (fetches \ {f}) \cup {Responded(f)}

LiveFetchIsCurrent ==
  \A f \in fetches :
    ~f.cancelled =>
      /\ f.user = user
      /\ f.questionId = questionId
      /\ ~initialLoaded
      /\ \A g \in fetches : ~g.cancelled => g = f

\* C1: a fetch whose hydrate was superseded by a change of the (user,
\* question) key changes nothing when it resolves: body, images, last-saved
\* snapshot, saveState, initialLoaded and the local cache stay as they are;
\* the only fetch that is not cancelled is the one of the current key.
C1_StaleFetchChangesNothing ==
  /\ []LiveFetchIsCurrent
  /\ [][\A f \in fetches :
          (f.cancelled /\ Resolves(f)) =>
            UNCHANGED <<value, images, lastSavedValueRef, lastSavedImagesRef,
                        saveState, initialLoaded, localStorage>>]_vars

C1_Witness ==
  /\ lastOp = "FetchDiscarded"
  /\ \E f \in fetches : ~f.cancelled
  /\ saveState = "loading"

\* C2: a cache entry written by a save that the remote store has not
\* received is replaced only by a later save or by clear, never by a hydrate.
C2_LocalAuthoritative ==
  [][\A k \in dirty :
       localStorage'[k] # localStorage[k] =>
         lastOp' \in {"saveToLocalStorage", "clearNote"}]_vars

\* the remote record the response of fetch f carries, and what it is turned into
ServerNotes(f) == f.notes

ServerUrls(f) == f.notesImageUrls

Sanitized(f) == cleanOrphanedImages(ServerNotes(f), ServerUrls(f))

SanitizedImages(f) == ServerImageData(Sanitized(f), ServerUrls(f))

LocalOf(f) == localStorage[localStorageKey(f.user, f.questionId)]

DiffersFromLocal(f) ==
  ~(/\ LocalOf(f).present
    /\ LocalOf(f).value = ServerNotes(f)
    /\ UrlsOf(LocalOf(f).images) = ServerUrls(f))

\* the step is the settling of `await res.json()` of the hydrate that is not
\* cancelled (a key change that cancels f is not such a step)
BodyArrives(f) ==
  /\ ~f.cancelled
  /\ f.phase = "json"
  /\ fetches' = fetches \ {f}
  /\ lastOp' \in {"FetchApplied", "FetchIgnored"}

\* C3 as stated: every remote response that differs from the cache entry
\* replaces the in-memory content and the cache entry.
C3_RemoteAlwaysWins ==
  [][\A f \in fetches :
       (BodyArrives(f) /\ LocalOf(f).present /\ DiffersFromLocal(f)) =>
         /\ value' = Sanitized(f)
         /\ images' = SanitizedImages(f)
         /\ localStorage'[localStorageKey(f.user, f.questionId)] =
              Entry(Sanitized(f), SanitizedImages(f))]_vars

\* C3 (amended): a remote response that differs from the cache entry and is
\* not empty (non-empty notes or at least one URL) replaces the in-memory
\* body, images and last-saved snapshot by the sanitized remote content, and
\* the cache entry too unless its write throws, which leaves the entry as it
\* was; an empty remote response replaces nothing.
C3_NonEmptyRemoteWins ==
  [][\A f \in fetches :
       (BodyArrives(f) /\ DiffersFromLocal(f)) =>
         IF ServerNotes(f) # <<>> \/ Len(ServerUrls(f)) > 0
         THEN /\ value' = Sanitized(f)
              /\ images' = SanitizedImages(f)
              /\ lastSavedValueRef' = Sanitized(f)
              /\ lastSavedImagesRef' = SanitizedImages(f)
              /\ localStorage'[localStorageKey(f.user, f.questionId)] \in
                   {Entry(Sanitized(f), SanitizedImages(f)), LocalOf(f)}
         ELSE UNCHANGED <<value, images, lastSavedValueRef, lastSavedImagesRef,
                          localStorage>>]_vars

C3_Witness ==
  /\ lastOp = "FetchApplied"
  /\ localStorage[CurrentKey] = Entry(value, images)
  /\ images # <<>>
  /\ remote[<<user, questionId>>].notes # value

\* C4: when the cache entry's body and image URLs equal the remote notes and
\* URL list, the resolution of the hydrate leaves body, images, last-saved
\* snapshot and the local cache unchanged.
C4_EqualRemoteIgnored ==
  [][\A f \in fetches :
       (BodyArrives(f) /\ ~DiffersFromLocal(f)) =>
         UNCHANGED <<value, images, lastSavedValueRef, lastSavedImagesRef,
                     localStorage>>]_vars

C4_Witness ==
  /\ lastOp = "FetchIgnored"
  /\ localStorage[CurrentKey].present
  /\ localStorage[CurrentKey].value # <<>>
  /\ localStorage[CurrentKey].value = remote[<<user, questionId>>].notes
  /\ UrlsOf(localStorage[CurrentKey].images) =
       remote[<<user, questionId>>].notesImageUrls

\* C5: from the start of a hydrate until its fetch resolves, if the local
\* cache holds an entry for the key and the user has not edited, the body,
\* the images and the last-saved snapshot are those of the entry.
C5_OptimisticLocalLoad ==
  (pc.step # "mount" /\ ~initialLoaded /\ ~edited
     /\ localStorage[CurrentKey].present) =>
    /\ value = localStorage[CurrentKey].value
    /\ images = localStorage[CurrentKey].images
    /\ lastSavedValueRef = localStorage[CurrentKey].value
    /\ lastSavedImagesRef = localStorage[CurrentKey].images

C5_Witness ==
  /\ ~initialLoaded
  /\ ~edited
  /\ \E f \in fetches : ~f.cancelled /\ f.phase = "fetch"
  /\ localStorage[CurrentKey].present
  /\ value # <<>>
  /\ value = localStorage[CurrentKey].value

----------------------------------------------------------------------------
(* Save and debounce claims *)

BecomesSaved == saveState' = "saved" /\ saveState # "saved"

\* a remote-sync timer is created (or a pending one is replaced by another)
SchedulesRemoteWrite ==
  /\ syncPending' # syncPending
  /\ syncPending' # <<>>
  /\ Len(syncPending') >= Len(syncPending)

\* C6: saveState becomes 'saved' and a remote write is scheduled only by a
\* save whose local write has succeeded, and only after that write: in the
\* step that does either, the cache entry already holds the saved content.
C6_LocalWriteFirst ==
  [][(BecomesSaved \/ SchedulesRemoteWrite) =>
       /\ pc.step = "save_ok"
       /\ localStorage[CurrentKey] = Entry(value', lastSavedImagesRef')
       /\ localStorage' = localStorage
       /\ BecomesSaved
       /\ Len(syncPending') >= 1]_vars

C6_Witness ==
  /\ lastOp = "SaveCommitted"
  /\ saveState = "saved"
  /\ Len(syncPending) = 1
  /\ localStorage[CurrentKey] = Entry(value, images)
  /\ value # <<>>

\* C7: a save whose local write failed ends with saveState 'error' and
\* schedules no remote write: the pending remote-sync timers and the remote
\* store are what they were before the save, and nothing is marked saved.
C7_LocalFailureIsError ==
  [][(pc.step = "save_failed" \/ pc'.step = "save_failed") =>
       /\ UNCHANGED <<syncPending, remote, localStorage, lastSavedValueRef,
                      lastSavedImagesRef>>
       /\ pc.step = "save_failed" => saveState' = "error"]_vars

C7_Witness ==
  /\ lastOp = "SaveFailed"
  /\ saveState = "error"
  /\ syncPending = <<>>
  /\ value # lastSavedValueRef

SyncTimerOf(entry) ==
  [content |-> entry.value, urls |-> UrlsOf(entry.images), user |-> user,
   questionId |-> questionId]

\* C8: remote writes are coalesced: at most one remote-sync timer is pending;
\* after every successful save the single pending timer carries the body and
\* URL list that save wrote to the local cache, replacing the timer of an
\* earlier save; when the timer fires the remote record becomes exactly that
\* content (or stays as it was if the request fails).
C8_RemoteWritesCoalesced ==
  /\ [](Len(syncPending) <= 1)
  /\ [][(pc.step = "save_ok" /\ pc'.step = "idle") =>
          syncPending' = <<SyncTimerOf(localStorage[CurrentKey])>>]_vars
  /\ [][(syncPending # <<>> /\ syncPending' = <<>>
           /\ UNCHANGED <<user, questionId>>) =>
          LET t == Head(syncPending)
          IN remote' \in
               {remote,
                [remote EXCEPT ![<<t.user, t.questionId>>] =
                   [notes |-> t.content, notesImageUrls |-> t.urls]]}]_vars

C8_Witness ==
  /\ lastOp = "SaveCoalesced"
  /\ syncPending = <<SyncTimerOf(localStorage[CurrentKey])>>
  /\ remote[<<user, questionId>>].notes # value

AutosaveClosureIsCurrent ==
  \A i \in DOMAIN debouncePending :
    /\ debouncePending[i].value = value
    /\ debouncePending[i].images = images
    /\ debouncePending[i].user = user
    /\ debouncePending[i].questionId = questionId

AutosaveWritesCurrent ==
  (pc.caller = "autosave" /\ pc.step \in {"save_local", "save_ok", "save_failed"}) =>
    /\ pc.content = cleanOrphanedImages(value, UrlsOf(images))
    /\ pc.images = images
    /\ localStorageKey(pc.user, pc.questionId) = CurrentKey
    /\ pc.step = "save_ok" => localStorage[CurrentKey] = Entry(pc.content, images)

\* C9: a content change made while an autosave timer is pending cancels that
\* timer: at most one autosave timer is pending and it saves the content
\* after the latest change, so the local cache write of the autosave holds
\* that content, and its save leaves exactly one remote sync scheduled.
C9_AutosaveDebounced ==
  /\ [](Len(debouncePending) <= 1 /\ AutosaveClosureIsCurrent)
  /\ []AutosaveWritesCurrent
  /\ [][(pc.step = "save_ok" /\ pc'.step = "idle") =>
          Len(syncPending') = 1]_vars

C9_Witness ==
  /\ lastOp = "EditDebounced"
  /\ Len(debouncePending) = 1
  /\ debouncePending[1].value = value
  /\ value # <<>>

AutosaveConditions(il, u, v, imgs, rv, ri) ==
  il /\ u # NoUser /\ HasChanges(v, imgs, rv, ri)

\* C10: an autosave timer is created only in a state where hydration has
\* completed, the content differs from the last-saved snapshot and a user is
\* signed in; a change of content that ends in any other state leaves no
\* autosave pending, and an edit itself writes neither tier.
C10_AutosaveOnlyWhenDue ==
  /\ [](debouncePending # <<>> => initialLoaded /\ user # NoUser)
  /\ [][(debouncePending' # debouncePending /\ debouncePending' # <<>>
           /\ Len(debouncePending') >= Len(debouncePending)) =>
          AutosaveConditions(initialLoaded', user', value', images',
                             lastSavedValueRef', lastSavedImagesRef')]_vars
  /\ [][(<<value', images'>> # <<value, images>>
           /\ ~AutosaveConditions(initialLoaded', user', value', images',
                                  lastSavedValueRef', lastSavedImagesRef')) =>
          debouncePending' = <<>>]_vars
  /\ [][edited' /\ lastOp' \in {"Edit", "EditDebounced"} =>
          UNCHANGED <<localStorage, remote>>]_vars

C10_Witness ==
  /\ lastOp = "Edit"
  /\ user # NoUser
  /\ ~initialLoaded
  /\ HasChanges(value, images, lastSavedValueRef, lastSavedImagesRef)
  /\ debouncePending = <<>>

----------------------------------------------------------------------------
(* Remote-sync failure claims *)

\* C24: a failed remote write is not fatal: the step in which the POST of a
\* remote-sync timer fails leaves saveState, body, images, last-saved snapshot,
\* the local cache and the remote record as they were, and saveState becomes
\* 'error' only at the end of a save whose local write failed.
C24_RemoteFailureNonFatal ==
  /\ [][lastOp' = "SyncFailed" =>
          UNCHANGED <<saveState, value, images, lastSavedValueRef,
                      lastSavedImagesRef, localStorage, remote>>]_vars
  /\ [][(saveState' = "error" /\ saveState # "error") =>
          pc.step = "save_failed"]_vars

C24_Witness ==
  /\ lastOp = "SyncFailed"
  /\ saveState = "saved"
  /\ localStorage[CurrentKey] = Entry(value, images)
  /\ value # <<>>
  /\ remote[<<user, questionId>>].notes # value

\* the step issues a remote write: a remote-sync timer fires, or clearNote
\* posts the empty note
IssuesRemoteWrite == lastOp' \in {"SyncFire", "SyncFailed", "clearNote"}

\* C25: a failed remote write is not retried.  Every remote write is the one
\* request of a remote-sync timer, which is consumed by firing, or the request
\* of clearNote; right after a failed write no timer is pending; and a timer
\* is created only by a save that has written the local cache.
C25_NoRetryOfFailedSync ==
  /\ [](lastOp = "SyncFailed" => syncPending = <<>>)
  /\ [][remote' # remote => IssuesRemoteWrite]_vars
  /\ [][lastOp' \in {"SyncFire", "SyncFailed"} =>
          syncPending # <<>> /\ syncPending' = Tail(syncPending)]_vars
  /\ [][(syncPending' # <<>> /\ syncPending' # syncPending) =>
          /\ pc.step = "save_ok"
          /\ Len(syncPending') <= Len(syncPending) + 1
          /\ syncPending'[Len(syncPending')].content =
               localStorage[CurrentKey].value]_vars

C25_Witness ==
  /\ lastOp = "SyncFailed"
  /\ saveState = "idle"
  /\ CurrentKey \in dirty
  /\ syncPending = <<>>
  /\ debouncePending = <<>>
  /\ initialLoaded
  /\ ~hasChanges
  /\ remote[<<user, questionId>>].notes # localStorage[CurrentKey].value

\* the remote record is what the cache entry of the active key holds
RemoteMirrorsLocal ==
  /\ localStorage[CurrentKey].present
  /\ remote[<<user, questionId>>] =
       [notes |-> localStorage[CurrentKey].value,
        notesImageUrls |-> UrlsOf(localStorage[CurrentKey].images)]

\* what ends the wait for the remote write of a save: an edit, a clear, a
\* change of document, a later save, or the failure of the request
Superseded ==
  lastOp \in {"Edit", "EditDebounced", "clearNote", "SwitchDocument",
              "AutosaveFire", "handleSaveEdit", "SyncFailed"}

\* C27: the remote store is eventually synced.  After a save has written the
\* local cache, either the remote store receives a write that makes its
\* record equal to the body and the image URLs of the cache entry, or before
\* that the user edits, clears, changes document or saves again, or the
\* request fails.
C27_RemoteEventuallySynced ==
  (lastOp \in {"SaveCommitted", "SaveCoalesced"}) ~>
    ((lastOp = "SyncFire" /\ RemoteMirrorsLocal) \/ Superseded)

C27_Witness ==
  /\ lastOp = "SyncFire"
  /\ RemoteMirrorsLocal
  /\ localStorage[CurrentKey].images # <<>>
  /\ saveState = "saved"

----------------------------------------------------------------------------
(* Save-state claims *)

SaveStateTransitions ==
  { <<"idle", "loading">>, <<"loading", "idle">>, <<"idle", "saving">>,
    <<"saving", "saved">>, <<"saved", "idle">>, <<"saving", "error">> }

\* C26: while the (user, question) key stays the same, saveState changes only
\* along idle -> loading -> idle, idle -> saving -> saved -> idle and
\* saving -> error; it becomes 'saved' only at the end of a save whose local
\* write succeeded, and the timed revert changes it only from 'saved'.
C26_SaveStateMachine ==
  /\ [][(saveState' # saveState /\ UNCHANGED <<user, questionId>>) =>
          <<saveState, saveState'>> \in SaveStateTransitions]_vars
  /\ [][(saveState' = "saved" /\ saveState # "saved") => pc.step = "save_ok"]_vars
  /\ [][(lastOp' = "RevertFire" /\ saveState' # saveState) =>
          saveState = "saved"]_vars

----------------------------------------------------------------------------
(* Clear and document-switch claims *)

\* C11: after clearNote the local cache has no entry for the cleared key and,
\* while that key is the active one, body and images are empty; this stays so
\* until the user edits again, whatever timer fires or hydrate runs meanwhile.
C11_ClearedStaysAbsent ==
  \A k \in clearedKeys :
    /\ ~localStorage[k].present
    /\ k = CurrentKey => value = <<>> /\ images = <<>>

\* the step is the firing of the remote-sync timer at the head of syncPending
SyncTimerFires == syncPending # <<>> /\ lastOp' \in {"SyncFire", "SyncFailed"}

\* C12: after clearNote and with no further edit, no remote write carrying
\* content is issued for the cleared key: a remote-sync timer that fires for
\* it posts the empty note.
C12_NoStaleRemoteWriteAfterClear ==
  [][(/\ SyncTimerFires
      /\ localStorageKey(Head(syncPending).user, Head(syncPending).questionId)
           \in clearedKeys) =>
       /\ Head(syncPending).content = <<>>
       /\ Head(syncPending).urls = <<>>]_vars

\* C13: a change of the active (user, question) key cancels every timer of
\* the previous session: after the switch no autosave timer, no remote-sync
\* timer and no saved-to-idle revert timer is pending.
C13_SwitchCancelsAllTimers ==
  [][lastOp' = "SwitchDocument" =>
       /\ debouncePending' = <<>>
       /\ syncPending' = <<>>
       /\ revertTimers' = 0]_vars

----------------------------------------------------------------------------
(* Sanitization claims *)

\* the registry has a record for the id whose url is not empty
HasResolvedRecord(imageId, imgs) ==
  \E i \in DOMAIN imgs : imgs[i].id = imageId /\ imgs[i].url # <<>>

NoOrphanIn(content, imgs) ==
  \A i \in DOMAIN extractImageIds(content) :
    HasResolvedRecord(extractImageIds(content)[i], imgs)

\* C14: the body a save writes to the local cache, which is the body its
\* remote-sync timer later posts, contains no placeholder token whose id has no
\* record with a non-empty url in the images of that save.
C14_SaveNeverPersistsOrphan ==
  pc.step \in {"save_local", "save_ok", "save_failed"} =>
    NoOrphanIn(pc.content, pc.images)

\* the positions of ids that have a non-empty url at the same position of urls
Paired(ids, urls) ==
  {i \in DOMAIN ids : i <= Len(urls) /\ urls[i] # <<>>}

\* C21: when the hydrate applies remote data, the registry is rebuilt by
\* position: the body is the sanitized remote body, its i-th id gets a record
\* with the i-th remote URL, an id without a (non-empty) URL gets none, the
\* records keep the order of the ids; afterwards every record has a non-empty
\* url and every token left in the body has a record.
C21_HydrateRebuildsRegistry ==
  [][\A f \in fetches :
       (BodyArrives(f) /\ lastOp' = "FetchApplied") =>
         LET ids == extractImageIds(value')
             urls == f.notesImageUrls
             kept == Paired(ids, urls)
         IN /\ value' = cleanOrphanedImages(f.notes, urls)
            /\ Len(ids) <= Len(urls)
            /\ Len(images') = Cardinality(kept)
            /\ \A i \in kept :
                 images'[Cardinality({j \in kept : j <= i})] =
                   ImageData(ids[i], urls[i], <<>>)
            /\ \A r \in DOMAIN images' : images'[r].url # <<>>
            /\ \A i \in DOMAIN ids : ids[i] \in IdsOf(images')]_vars

----------------------------------------------------------------------------
(* Image registry claims *)

UniqueIds(imgs) ==
  \A i, j \in DOMAIN imgs : imgs[i].id = imgs[j].id => i = j

\* C20: in every reachable state no two records of images have the same id,
\* and the same holds of the registries kept in the local cache.
C20_ImageIdsUnique ==
  /\ UniqueIds(images)
  /\ \A k \in LocalKeys : UniqueIds(localStorage[k].images)

----------------------------------------------------------------------------
(* Codec claims, over the bodies of EditorSpec *)

ValidUrls(n) == SubSeq(<<(<<"u1">>), (<<"u2">>), (<<"u3">>)>>, 1, n)

Min(a, b) == IF a <= b THEN a ELSE b

\* C15: cleanOrphanedImages is a positional truncation: for a body with k
\* tokens and a list of n URLs, the tokens of the result are the first
\* min(k, n) tokens of the body, in order; with n = 0 none is left.
C15_PositionalTruncation ==
  \A n \in 0..3 :
    LET ids == extractImageIds(value)
    IN extractImageIds(cleanOrphanedImages(value, ValidUrls(n))) =
         SubSeq(ids, 1, Min(Len(ids), n))

\* the text between an opener and a "]" is the id of a current-format token:
\* not empty, no opener inside, and not the two fields of a legacy token
IsCurrentFormatId(t) ==
  /\ t # <<>>
  /\ \A i \in DOMAIN t : t[i] # OPEN
  /\ ~\E b \in 2..(Len(t) - 1) :
        t[b] = BAR /\ \A j \in 1..(b - 1) : t[j] # BAR

RECURSIVE CurrentFormatIdsFrom(_, _)
CurrentFormatIdsFrom(s, i) ==
  IF i > Len(s) THEN <<>>
  ELSE LET j == IF s[i] = OPEN THEN NextClose(s, i + 1) ELSE 0
       IN IF j > i + 1 /\ IsCurrentFormatId(SubSeq(s, i + 1, j - 1))
          THEN <<SubSeq(s, i + 1, j - 1)>> \o CurrentFormatIdsFrom(s, j + 1)
          ELSE CurrentFormatIdsFrom(s, i + 1)

\* C16: extractImageIds returns the ids of the current-format tokens of the
\* body, left to right, one entry per occurrence, and nothing for an
\* unterminated opener, an empty token or a legacy two-field token.
C16_ExtractsCurrentFormatIds ==
  extractImageIds(value) = CurrentFormatIdsFrom(value, 1)

----------------------------------------------------------------------------
(* Editor claims *)

\* the tokens extractImageIds finds from position i on, as <<first, last>>
RECURSIVE SpansFrom(_, _)
SpansFrom(s, i) ==
  IF i > Len(s) THEN <<>>
  ELSE LET j == MatchEnd(s, i)
       IN IF j = 0 THEN SpansFrom(s, i + 1)
          ELSE <<(<<i, j>>)>> \o SpansFrom(s, j + 1)

\* the cursor after p lexemes is inside a token
InsideToken(s, p) ==
  \E k \in DOMAIN SpansFrom(s, 1) :
    SpansFrom(s, 1)[k][1] <= p /\ p < SpansFrom(s, 1)[k][2]

TokensBefore(s, p) ==
  Cardinality({k \in DOMAIN SpansFrom(s, 1) : SpansFrom(s, 1)[k][2] <= p})

InsertInto(seq, k, x) ==
  SubSeq(seq, 1, k) \o <<x>> \o SubSeq(seq, k + 1, Len(seq))

\* every opener of the body begins a token
OnlyWellFormedTokens(s) ==
  \A i \in DOMAIN s :
    s[i] = OPEN => \E k \in DOMAIN SpansFrom(s, 1) : SpansFrom(s, 1)[k][1] = i

\* what an insertion at a cursor that is not inside a token does; WellFormed
\* says which bodies the statement on extractImageIds is about
InsertionLaw(WellFormed(_)) ==
  LET newImage == images'[Len(images')]
      imageId == newImage.id
  IN /\ images' = Append(images, newImage)
     /\ imageId \notin IdsOf(images)
     /\ HasResolvedRecord(imageId, images')
     /\ \E p \in 0..Len(value) : value' = Splice(value, p, Token(imageId))
     /\ \A p \in 0..Len(value) :
          (/\ value' = Splice(value, p, Token(imageId))
           /\ ~InsideToken(value, p)
           /\ WellFormed(value)) =>
            extractImageIds(value') =
              InsertInto(extractImageIds(value), TokensBefore(value, p), imageId)

AnyBody(s) == TRUE

C22_RemoveTouchesOnlyItsImage ==
  [][lastOp' = "removeImage" =>
       \E x \in IdsOf(images) :
         /\ x \notin IdsOf(images')
         /\ images' = SelectSeq(images, LAMBDA r : r.id # x)
         /\ value' = RemoveReferences(value, x)]_vars

\* C23: no placeholder is created for a rejected or failed upload.  The upload
\* service is only ever given image files within the size ceiling; the
\* selection of a file and the failure of an upload leave body and registry
\* unchanged; a placeholder is inserted only by the completion of an upload
\* that was started.
C23_NoPlaceholderForFailedUpload ==
  /\ [](\A i \in DOMAIN uploads :
          /\ Head(uploads[i].type) = "image/"
          /\ uploads[i].size <= maxImageSize)
  /\ [][lastOp' \in {"handleImageUpload", "onUploadError"} =>
          UNCHANGED <<value, images>>]_vars
  /\ [][Len(uploads') > Len(uploads) => lastOp' = "handleImageUpload"]_vars
  /\ [][lastOp' = "insertImageAtCursor" =>
          uploads # <<>> /\ uploads' = Tail(uploads)]_vars

C23_Witness ==
  /\ lastOp = "onUploadError"
  /\ uploads = <<>>
  /\ extractImageIds(value) # <<>>
  /\ Len(images) = 2

\* C18: the legacy migration is idempotent: applied to its own output it
\* changes neither the body nor the registry.
C18_MigrationIdempotent ==
  [][lastOp' = "MigrationEffect" =>
       migrateLegacy(value', images') =
         [working |-> value', newImages |-> images']]_vars

\* the legacy tokens the migration finds from position i on, in order
RECURSIVE LegacyTokensFrom(_, _)
LegacyTokensFrom(s, i) ==
  IF i > Len(s) THEN <<>>
  ELSE LET m == LegacyMatch(s, i)
       IN IF m.end = 0 THEN LegacyTokensFrom(s, i + 1)
          ELSE <<[url |-> Trim(SubSeq(s, i + 1, m.bar - 1)),
                  description |-> Trim(SubSeq(s, m.bar + 1, m.end - 1))]>>
               \o LegacyTokensFrom(s, m.end + 1)

\* the first record of the registry with the url
FirstWithUrl(imgs, url) ==
  imgs[CHOOSE i \in DOMAIN imgs :
         imgs[i].url = url /\ \A j \in 1..(i - 1) : imgs[j].url # url]

\* the body with every legacy token replaced by the token of the first record
\* of the registry that has the token's url
RECURSIVE RewriteFrom(_, _, _)
RewriteFrom(s, i, imgs) ==
  IF i > Len(s) THEN <<>>
  ELSE LET m == LegacyMatch(s, i)
       IN IF m.end = 0 THEN <<s[i]>> \o RewriteFrom(s, i + 1, imgs)
          ELSE Token(FirstWithUrl(imgs, Trim(SubSeq(s, i + 1, m.bar - 1))).id)
               \o RewriteFrom(s, m.end + 1, imgs)

ProperLegacyMatch(s, i) ==
  LET m == LegacyMatch(s, i)
  IN IF /\ m.end # 0
        /\ \A k \in (i + 1)..(m.bar - 1) : s[k] \notin {OPEN, CLOSE}
     THEN m
     ELSE [bar |-> 0, end |-> 0]

\* the body with every legacy token replaced, in place, by the token of the
\* first record of the registry that has the token's url; all else unchanged
RECURSIVE ReplaceLegacyFrom(_, _, _)
ReplaceLegacyFrom(s, i, imgs) ==
  IF i > Len(s) THEN <<>>
  ELSE LET m == ProperLegacyMatch(s, i)
           url == Trim(SubSeq(s, i + 1, m.bar - 1))
       IN IF m.end = 0 THEN <<s[i]>> \o ReplaceLegacyFrom(s, i + 1, imgs)
          ELSE (IF \E r \in DOMAIN imgs : imgs[r].url = url
                THEN Token(FirstWithUrl(imgs, url).id)
                ELSE <<>>)
               \o ReplaceLegacyFrom(s, m.end + 1, imgs)

\* C30: the migration replaces exactly the legacy tokens, in place: each
\* becomes the token of the record with its url, and every current-format
\* token and all text outside the legacy tokens stay as they were; a
\* current-format token before a legacy token is not merged into it.
C30_MigrationReplacesOnlyLegacyTokens ==
  [][lastOp' = "MigrationEffect" =>
       value' = ReplaceLegacyFrom(value, 1, images')]_vars

----------------------------------------------------------------------------
(* Comment tree claims *)

\* the comments of the subtree of a comment, the comment included
Subtree(c) == NodesOf(<<c>>)

\* C28: for every comment at any depth of the tree, findRootId returns the id
\* of the top-level comment whose subtree holds it; for a comment without
\* parentCommentId it returns the comment's own id.
C28_FindRootIdFindsRoot ==
  /\ \A i \in DOMAIN comments :
       \A n \in Subtree(comments[i]) : findRootId(n) = comments[i].id
  /\ \A n \in NodesOf(comments) :
       n.parentCommentId = NoParent => findRootId(n) = n.id

C28_Witness ==
  /\ lastOp = "submitReply"
  /\ Len(comments) = 2
  /\ \E n \in NodesOf(comments), m \in NodesOf(comments) :
       /\ n.parentCommentId = m.id
       /\ m.parentCommentId # NoParent
       /\ m.parentCommentId # comments[1].id
       /\ findRootId(n) = comments[2].id

----------------------------------------------------------------------------
(* Round-trip claims *)

\* the url the preview shows for a token: images.find(img => img.id === id),
\* the empty url when there is no such record
ResolvedUrl(imgs, imageId) ==
  IF \E i \in DOMAIN imgs : imgs[i].id = imageId
  THEN imgs[CHOOSE i \in DOMAIN imgs :
              /\ imgs[i].id = imageId
              /\ \A j \in DOMAIN imgs : imgs[j].id = imageId => i <= j].url
  ELSE <<>>

\* C29: when a document was saved and written to the remote store, and a
\* hydrate with an empty cache then applies the remote record, every token
\* of the hydrated body resolves to the url it resolved to in the registry
\* the save was made from.
C29_RoundTripKeepsReferences ==
  lastOp = "FetchApplied" =>
    \A i \in DOMAIN extractImageIds(value) :
      ResolvedUrl(images, extractImageIds(value)[i]) =
        ResolvedUrl(savedFrom, extractImageIds(value)[i])

----------------------------------------------------------------------------
(* Image dialog claims *)

\* C31: "Associer une image" under an orphan token appends exactly one record
\* with the token's id and an empty url, leaves the body unchanged, and opens
\* the image dialog for that record in the same interaction.
C31_AttachOpensEditor ==
  [][lastOp' = "attachOrphanImage" =>
       \E i \in DOMAIN extractImageIds(value) :
         LET newImg == ImageData(extractImageIds(value)[i], <<>>, <<>>)
         IN /\ newImg.id \notin IdsOf(images)
            /\ images' = Append(images, newImg)
            /\ value' = value
            /\ editingImage' = <<newImg>>]_vars

----------------------------------------------------------------------------
(* Hydrate and snapshot claims *)

\* the fetch of the running hydrate has just been resolved
HydrateResolves == lastOp' \in {"FetchApplied", "FetchIgnored", "FetchFailed"}

\* C32: what the user edited between the start of a hydrate and the
\* resolution of its fetch is still the in-memory content after the fetch
\* resolves, and an autosave is scheduled for it when it differs from the
\* last-saved snapshot.
C32_EditsSurviveHydrate ==
  [][(edited /\ HydrateResolves) =>
       /\ value' = value
       /\ images' = images
       /\ (HasChanges(value, images, lastSavedValueRef', lastSavedImagesRef')
             => debouncePending' # <<>>)]_vars

\* the hydrate is over: saving is enabled and the status is not "loading"
HydrateCompleted == initialLoaded /\ saveState # "loading"

\* C33: a hydrate that no document switch supersedes completes, whatever
\* the outcome of its fetch and also without a user: from every state where
\* initialLoaded is false, either the hydrate completes or the document is
\* switched (which, with one question, changes the user).
C33_HydrateCompletes ==
  \A u \in Users :
    (~initialLoaded /\ user = u) ~> (HydrateCompleted \/ user # u)

\* C34: whenever no save is in progress and the local cache has an entry
\* for the active key, the last-saved snapshot is the body and the images of
\* that entry.
C34_SnapshotMirrorsCache ==
  (pc.step = "idle" /\ localStorage[CurrentKey].present) =>
    /\ lastSavedValueRef = localStorage[CurrentKey].value
    /\ lastSavedImagesRef = localStorage[CurrentKey].images

----------------------------------------------------------------------------
(* Save frame claims *)

\* a save has just succeeded
SaveSucceeds == lastOp' \in {"SaveCommitted", "SaveCoalesced"}

\* C35: when every token of the body has a record with a url, and there
\* are no more tokens than urls, a successful save leaves the in-memory body
\* as it was, whitespace included, and writes that body to the local cache.
C35_SaveKeepsCleanBody ==
  [][(SaveSucceeds
       /\ NoOrphanIn(value, pc.images)
       /\ Len(extractImageIds(value)) <= Len(pc.images)) =>
       /\ value' = value
       /\ localStorage'[localStorageKey(pc.user, pc.questionId)].value = value]_vars

\* C36: right after a save has succeeded hasChanges is false (the save
\* button is disabled and the "saved at" status can be shown) and no autosave
\* is scheduled.
C36_NoChangesAfterSave ==
  lastOp \in {"SaveCommitted", "SaveCoalesced"} =>
    ~hasChanges /\ debouncePending = <<>>

\* C37: cancel-edit puts the last-saved snapshot back as the in-memory body
\* and images, changes neither the local cache, the remote store, the
\* snapshot nor the pending remote write, and leaves no autosave timer
\* behind, so no later write carries the discarded edits.
C37_CancelRestoresSnapshot ==
  [][lastOp' = "handleCancelEdit" =>
       /\ value' = lastSavedValueRef
       /\ images' = lastSavedImagesRef
       /\ ~hasChanges'
       /\ debouncePending' = <<>>
       /\ UNCHANGED <<localStorage, remote, lastSavedValueRef,
                      lastSavedImagesRef, syncPending>>]_vars

C37_Witness ==
  /\ lastOp = "handleCancelEdit"
  /\ user # NoUser
  /\ initialLoaded
  /\ edited
  /\ value # <<>>
  /\ value = lastSavedValueRef
  /\ localStorage[CurrentKey].present
  /\ debouncePending = <<>>

----------------------------------------------------------------------------
(* Comment deletion claims *)

\* C38: after a confirmed deletion the tree holds the deleted comment's id
\* at no depth; after a rejected or failed deletion the tree is unchanged.
C38_DeletedCommentIsGone ==
  /\ [][lastOp' = "handleDeleteComment" =>
          \E n \in NodesOf(comments) :
            /\ comments' = WithoutComment(comments, n.id)
            /\ \A m \in NodesOf(comments') : m.id # n.id]_vars
  /\ [][lastOp' = "handleDeleteCommentFailed" => comments' = comments]_vars

====
